---- MODULE Spec2Model ----
(***************************************************************************)
(* A model of src/src/processingblocks/processors.py:                      *)
(*   SeparateProcess  - the wrapper of one multiprocessing.Process         *)
(*   ProcessingUnit   - the setup -> task -> closure lifecycle driver      *)
(*                                                                         *)
(* The specifications share the variables:                                 *)
(*   Spec   a ProcessingUnit being dispatched (run / start /               *)
(*          run_async_task / start_async_task), with the process of        *)
(*          its SeparateProcess exiting or being terminated meanwhile;     *)
(*   HSpec  a SeparateProcess handle used on its own (start, join,         *)
(*          join_async, pickling) while time passes;                       *)
(*   LSpec  the lifecycle of a SeparateProcess handle: delayed             *)
(*          construction, create_process, start, close, restart;           *)
(*   JSpec  a ProcessingUnit or ProcessingCluster being joined or stopped  *)
(*          while it is dispatched and time passes;                        *)
(*   CSpec  the construction of a ProcessingUnit or ProcessingCluster.     *)
(*                                                                         *)
(* SeparateProcess derives from baseobjects.StaticWrapper with             *)
(* _wrap_attributes = ["_process"]: the attributes of the wrapped Process  *)
(* (_target, _args, _kwargs, daemon, terminate, ...) read on the handle    *)
(* are those of self._process (the docstrings of the properties at         *)
(* processors.py:82-107 say "gets from _process").                         *)
(***************************************************************************)
EXTENDS Integers, Sequences, FiniteSets, TLC

\* ------------------------------------------------------------------ bounds
MaxDispatch == 2      \* dispatches of the unit in one behaviour
MaxTime     == 2      \* ticks of the clock in one behaviour
MaxTimeout  == 1      \* largest finite timeout handed to join / join_async
MaxInterval == 1      \* largest polling interval handed to join_async
MaxStarts   == 2      \* calls of SeparateProcess.start in one behaviour
MaxJoins    == 1      \* calls of join / join_async in one behaviour
MaxOps      == 3      \* LSpec: calls made on the handle in one behaviour
MaxUnitCalls == 1     \* JSpec: calls of the unit's join / stop in one behaviour

\* timeout=None
NoTimeout == -1

\* ------------------------------------------------- multiprocessing.Process
\* The values a launch configuration is drawn from.
Targets  == {"None", "log", "run_method"}
Names    == {"None", "sep"}
ArgsSet  == {"()", "(1,)"}
Daemons  == {"None", "True", "False"}

EmptyArgs   == "()"
EmptyKwargs == [obj |-> "none", method |-> "none", user |-> "none"]
UserKwargs  == [obj |-> "none", method |-> "none", user |-> "kw"]
KwargsSet   == {EmptyKwargs, UserKwargs}

\* self._process = None
NoProc == [target |-> "None", name |-> "None", args |-> EmptyArgs,
           kwargs |-> EmptyKwargs, daemon |-> "None", status |-> "none"]

\* Process(): no target, an automatic name, no arguments, the daemon flag of
\* the creating process, not started.
NewProcess == [target |-> "None", name |-> "auto", args |-> EmptyArgs,
               kwargs |-> EmptyKwargs, daemon |-> "False", status |-> "initial"]

\* SeparateProcess.create_process, wrongly dropping the previous attributes
create_process_no_inherit(p, target, name, args, kwargs, daemon) ==
    [target |-> target,
     name   |-> IF name # "None" THEN name ELSE NewProcess.name,
     args   |-> args,
     kwargs |-> kwargs,
     daemon |-> IF daemon # "None" THEN daemon ELSE NewProcess.daemon,
     status |-> "initial"]

\* SeparateProcess.create_process: the new value of self._process
create_process(p, target, name, args, kwargs, daemon) ==
    LET prev == p # NoProc
        t == IF prev /\ target = "None" THEN p.target ELSE target
        d == IF prev /\ daemon = "None" THEN p.daemon ELSE daemon
        a == IF prev /\ args = EmptyArgs THEN p.args ELSE args
        k == IF prev /\ kwargs = EmptyKwargs THEN p.kwargs ELSE kwargs
    IN  [target |-> IF t # "None" THEN t ELSE NewProcess.target,
         name   |-> IF name # "None" THEN name ELSE NewProcess.name,
         args   |-> IF a # EmptyArgs THEN a ELSE NewProcess.args,
         kwargs |-> IF k # EmptyKwargs THEN k ELSE NewProcess.kwargs,
         daemon |-> IF d # "None" THEN d ELSE NewProcess.daemon,
         status |-> "initial"]

\* SeparateProcess.construct with delay=False (the call made by __init__)
construct(target, name, args, kwargs, daemon) ==
    create_process(NoProc, target, name, args, kwargs, daemon)

\* target_object_method making the method itself the entry point
target_object_method_direct(p, obj, method, user) ==
    create_process(p, method, "None", EmptyArgs,
                   [obj |-> "none", method |-> "none", user |-> user], "None")

\* SeparateProcess.target_object_method: obj and method go into the keyword
\* arguments, the entry point is self.method_wrapper = run_method
target_object_method(p, obj, method, user) ==
    create_process(p, "run_method", "None", EmptyArgs,
                   [obj |-> obj, method |-> method, user |-> user], "None")

\* SeparateProcess.is_alive
is_alive(p) == IF p = NoProc THEN FALSE ELSE p.status = "running"

\* Process.exitcode is not None
HasExitCode(p) == p.status = "exited"

\* Process.start(): raises unless the Process object was never started (a
\* Process can be started once; None has no start), or when the operating
\* system refuses (osFails).
ProcessStartRaises(p, osFails) == p.status # "initial" \/ osFails

\* SeparateProcess.start without the retry after a failed start
SeparateProcess_start_no_retry(p, osFails1, osFails2) ==
    IF ~ProcessStartRaises(p, osFails1)
    THEN [process |-> [p EXCEPT !.status = "running"], raised |-> FALSE,
          attempts |-> 1, created |-> 0]
    ELSE [process |-> p, raised |-> TRUE, attempts |-> 1, created |-> 0]

\* SeparateProcess.start (named apart from ProcessingUnit.start): the handle after the call, whether the call
\* raised, how many times Process.start was called and how many Process
\* objects were created.
SeparateProcess_start(p, osFails1, osFails2) ==
    IF ~ProcessStartRaises(p, osFails1)
    THEN [process |-> [p EXCEPT !.status = "running"], raised |-> FALSE,
          attempts |-> 1, created |-> 0]
    ELSE LET q == create_process(p, "None", "None", EmptyArgs, EmptyKwargs, "None")
         IN  IF ~ProcessStartRaises(q, osFails2)
             THEN [process |-> [q EXCEPT !.status = "running"], raised |-> FALSE,
                   attempts |-> 2, created |-> 1]
             ELSE [process |-> q, raised |-> TRUE, attempts |-> 2, created |-> 1]

\* Process.terminate(): the process is killed if it runs
ProcessTerminate(p) == IF p.status = "running" THEN [p EXCEPT !.status = "exited"] ELSE p

\* ------------------------------------------------------------- variables
VARIABLES
    unit,        \* the ProcessingUnit's configuration attributes
    joined,      \* ProcessingUnit._joined
    process,     \* the Process held by the SeparateProcess handle (_process)
    pc,          \* where the current dispatch of the unit stands
    method,      \* "run" or "start": the task method of the current dispatch
    path,        \* "normal" (run_normal/start_normal) or "coro" (run_coro/start_coro)
    events,      \* lifecycle events of the current dispatch, in order
    raised,      \* the error that ended the current dispatch, or "none"
    lastTrace,   \* events of the last completed dispatch per <<path, method>>
    dispatches,  \* dispatches begun so far
    termd,       \* terminate() met the process running since the dispatch launched it
    thrown,      \* the error a callable of the current dispatch raised, or "none"
    called,      \* the task method the current dispatch called in process, or "none"
    hpc,         \* HSpec: the call the user of the handle is in
    startRes,    \* HSpec: what the last SeparateProcess.start call did
    starts,      \* HSpec: calls of SeparateProcess.start so far
    jn,          \* HSpec: the join / join_async call in progress or the last one made
    joins,       \* HSpec: calls of join / join_async so far
    now,         \* HSpec: the clock (time.perf_counter)
    exitAt,      \* HSpec: when the process exited, -1 while it has not
    pickled,     \* HSpec: the outcome of pickle.loads(pickle.dumps(handle))
    stash,       \* LSpec: what construct(delay=True) kept on the handle
    old,         \* LSpec: the Process the handle held before the last replacement
    lop,         \* LSpec: the last call made on the handle and its outcome
    ops,         \* LSpec: calls made on the handle so far
    isCluster,   \* JSpec: the unit is a ProcessingCluster
    ujn,         \* JSpec: the ProcessingUnit.join / join_async call in progress or the last one
    stp,         \* JSpec: the stop / stop_async call in progress or the last one
    ucalls,      \* JSpec: calls of the unit's join and stop so far
    built        \* CSpec: the outcome of constructing a unit or a cluster

uvars == <<unit, joined, pc, method, path, events, raised, lastTrace, dispatches, termd,
           thrown, called>>
hvars == <<hpc, startRes, starts, jn, joins, now, exitAt, pickled>>
lvars == <<stash, old, lop, ops>>
jvars == <<isCluster, ujn, stp, ucalls>>
cvars == <<built>>
vars  == <<unit, joined, process, pc, method, path, events, raised, lastTrace,
           dispatches, termd, thrown, called,
           hpc, startRes, starts, jn, joins, now, exitAt, pickled,
           stash, old, lop, ops, isCluster, ujn, stp, ucalls, built>>

Paths   == {"normal", "coro"}
Methods == {"run", "start"}
NoTrace == [k \in Paths \X Methods |-> <<>>]

NoStart  == [raised |-> FALSE, attempts |-> 0, created |-> 0, before |-> NoProc,
             osFails1 |-> FALSE, osFails2 |-> FALSE]
NoJoin   == [kind |-> "none", start |-> 0, timeout |-> NoTimeout, interval |-> 0,
             sleepStart |-> 0, warnings |-> 0, returned |-> FALSE, alive |-> FALSE,
             exitAt |-> -1]
NoPickle == [state |-> "none", process |-> NoProc, original |-> NoProc]

\* Nothing stashed: the arguments of construct at their defaults.
NoStash == [target |-> "None", name |-> "None", args |-> EmptyArgs,
            kwargs |-> EmptyKwargs, daemon |-> "None"]
NoOp    == [op |-> "none", error |-> "none", result |-> FALSE, given |-> NoStash]

\* The handle-only variables while the unit is what is being exercised.
HandleIdle ==
    /\ hpc = "idle" /\ startRes = NoStart /\ starts = 0 /\ jn = NoJoin /\ joins = 0
    /\ now = 0 /\ exitAt = -1 /\ pickled = NoPickle

\* The lifecycle variables of the handle outside LSpec.
LifecycleIdle == stash = NoStash /\ old = NoProc /\ lop = NoOp /\ ops = 0

\* The arguments of a construction left at their defaults, and nothing
\* constructed.
NoArguments == [name |-> "None", task |-> "None", separate_process |-> FALSE,
                daemon |-> "False", p_kwargs |-> EmptyKwargs, DEFAULT_TASK |-> "None"]
NoBuild     == [cls |-> "none", given |-> NoArguments, error |-> "none",
                task_object |-> "None", process |-> NoProc]
NotBuilding == built = NoBuild

\* No join and no stop of the unit has been called.
NoUnitJoin == [kind |-> "none", phase |-> "none", start |-> 0, timeout |-> NoTimeout,
               interval |-> 0, sleepStart |-> 0, why |-> "none", handle |-> "none",
               limited |-> FALSE, remaining |-> 0]
NoTaskStop == [given |-> FALSE, join |-> FALSE, timeout |-> NoTimeout]
NoStop     == [kind |-> "none", join |-> FALSE, timeout |-> NoTimeout, interval |-> 0,
               taskStops |-> <<>>, joinTimeout |-> NoTimeout, phase |-> "none"]
JoinStopIdle == isCluster = FALSE /\ ujn = NoUnitJoin /\ stp = NoStop /\ ucalls = 0

\* ------------------------------------------------------- ProcessingUnit
\* ProcessingUnit.new_process: SeparateProcess(name=name, daemon=daemon,
\* kwargs=p_kwargs), which constructs its Process at once (delay=False).
new_process(name, daemon, kwargs) == construct("None", name, EmptyArgs, kwargs, daemon)

\* ProcessingUnit.__init__ and construct: name, separate_process, allow_setup
\* and allow_closure are the caller's; await_closure starts False, the setup
\* and closure callables are the unit's own plain methods, _joined starts
\* True, and the handle exists only for a separate-process unit.
Init ==
    /\ \E n \in Names, sp \in BOOLEAN, s \in BOOLEAN, c \in BOOLEAN, ta \in BOOLEAN :
        /\ unit = [name |-> n, separate_process |-> sp, allow_setup |-> s,
                   allow_closure |-> c, await_closure |-> FALSE,
                   execute_setup |-> "plain", execute_closure |-> "plain",
                   task_is_async |-> ta]
        /\ process = IF sp THEN new_process(n, "False", EmptyKwargs) ELSE NoProc
    /\ joined = TRUE
    /\ pc = "idle" /\ method = "run" /\ path = "normal"
    /\ events = <<>> /\ raised = "none"
    /\ lastTrace = NoTrace /\ dispatches = 0 /\ termd = FALSE
    /\ thrown = "none" /\ called = "none"
    /\ HandleIdle
    /\ LifecycleIdle
    /\ JoinStopIdle
    /\ NotBuilding

\* is_async asking the task whatever the mode of the unit
is_async_in_any_mode ==
    IF unit.execute_setup = "coro" \/ unit.execute_closure = "coro" THEN TRUE
    ELSE unit.task_is_async

\* ProcessingUnit.is_async
is_async ==
    IF unit.execute_setup = "coro" \/ unit.execute_closure = "coro" THEN TRUE
    ELSE IF ~unit.separate_process /\ unit.task_is_async THEN TRUE
    ELSE FALSE

\* is_processing with _is_processing raised while a sequence is in a phase
is_processing_in_phases ==
    IF process # NoProc /\ unit.separate_process THEN is_alive(process)
    ELSE pc \in {"setup", "task", "closure"}

\* ProcessingUnit.is_processing: _is_processing is False from __init__ on and
\* is assigned nowhere but here.
is_processing ==
    IF process # NoProc /\ unit.separate_process THEN is_alive(process) ELSE FALSE

\* The task_object property handing the task out in every state
task_object_raises_never == FALSE

\* The task_object property: while is_processing() it calls warnings.warn()
\* with no message, which is a TypeError.
task_object_raises == is_processing

\* No dispatch is in flight.
AtRest == pc \in {"idle", "done", "failed"}

\* The record kept of a dispatch (its events, its error, the traces to
\* compare) is about one configuration and is dropped when that changes.
ForgetDispatch ==
    /\ pc' = "idle" /\ events' = <<>> /\ raised' = "none"
    /\ termd' = FALSE /\ lastTrace' = NoTrace
    /\ thrown' = "none" /\ called' = "none"

\* The unit's attributes a caller sets between dispatches.
set_await_closure(b) ==
    /\ AtRest /\ unit.await_closure # b
    /\ unit' = [unit EXCEPT !.await_closure = b]
    /\ ForgetDispatch
    /\ UNCHANGED <<joined, process, method, path, dispatches>>
    /\ UNCHANGED hvars
    /\ UNCHANGED lvars
    /\ UNCHANGED jvars
    /\ UNCHANGED cvars

\* ProcessingUnit.set_setup (and use_task_setup): func is a plain function
\* or a coroutine function.
set_setup(func) ==
    /\ AtRest /\ unit.execute_setup # func
    /\ unit' = [unit EXCEPT !.execute_setup = func]
    /\ ForgetDispatch
    /\ UNCHANGED <<joined, process, method, path, dispatches>>
    /\ UNCHANGED hvars
    /\ UNCHANGED lvars
    /\ UNCHANGED jvars
    /\ UNCHANGED cvars

\* ProcessingUnit.set_closure (and use_task_closure)
set_closure(func) ==
    /\ AtRest /\ unit.execute_closure # func
    /\ unit' = [unit EXCEPT !.execute_closure = func]
    /\ ForgetDispatch
    /\ UNCHANGED <<joined, process, method, path, dispatches>>
    /\ UNCHANGED hvars
    /\ UNCHANGED lvars
    /\ UNCHANGED jvars
    /\ UNCHANGED cvars

\* The first statement of run_normal / start_normal / run_coro / start_coro:
\* self._joined = False.
EnterSequence(m, p) ==
    /\ joined' = FALSE
    /\ pc' = "setup" /\ method' = m /\ path' = p
    /\ events' = <<>> /\ raised' = "none" /\ termd' = FALSE
    /\ thrown' = "none" /\ called' = "none"

\* run / start taking the blocking sequence whatever is_async() says
Blocking_normal_only(m) ==
    /\ AtRest /\ dispatches < MaxDispatch
    /\ dispatches' = dispatches + 1
    /\ EnterSequence(m, "normal")
    /\ UNCHANGED <<unit, process, lastTrace>>
    /\ UNCHANGED hvars
    /\ UNCHANGED lvars
    /\ UNCHANGED jvars
    /\ UNCHANGED cvars

\* ProcessingUnit.run and ProcessingUnit.start: the cooperative sequence
\* under asyncio.run when is_async(), the blocking sequence otherwise.
Blocking(m) ==
    /\ AtRest /\ dispatches < MaxDispatch
    /\ dispatches' = dispatches + 1
    /\ EnterSequence(m, IF is_async THEN "coro" ELSE "normal")
    /\ UNCHANGED <<unit, process, lastTrace>>
    /\ UNCHANGED hvars
    /\ UNCHANGED lvars
    /\ UNCHANGED jvars
    /\ UNCHANGED cvars

run == Blocking("run")

start == Blocking("start")

\* ProcessingUnit.run_async_task and start_async_task: asyncio.create_task
\* of the cooperative sequence, which has not run a statement yet.
Scheduled(m) ==
    /\ AtRest /\ dispatches < MaxDispatch
    /\ dispatches' = dispatches + 1
    /\ pc' = "scheduled" /\ method' = m /\ path' = "coro"
    /\ events' = <<>> /\ raised' = "none" /\ termd' = FALSE
    /\ thrown' = "none" /\ called' = "none"
    /\ UNCHANGED <<unit, joined, process, lastTrace>>
    /\ UNCHANGED hvars
    /\ UNCHANGED lvars
    /\ UNCHANGED jvars
    /\ UNCHANGED cvars

run_async_task == Scheduled("run")

start_async_task == Scheduled("start")

\* The event loop runs the scheduled coroutine up to its setup phase.
CoroBegins ==
    /\ pc = "scheduled"
    /\ EnterSequence(method, path)
    /\ UNCHANGED <<unit, process, lastTrace, dispatches>>
    /\ UNCHANGED hvars
    /\ UNCHANGED lvars
    /\ UNCHANGED jvars
    /\ UNCHANGED cvars

\* warnings.warn("Run Though! ...", self.name) in run_normal hands the unit's
\* name over as the warning category: a TypeError unless the name is None.
\* start_normal, run_coro and start_coro give the message alone.
WarnRaises == path = "normal" /\ method = "run" /\ unit.name # "None"

\* In run_coro the "Optionally run Closure" block is indented under the else
\* of "if self.separate_process"; in run_normal, start_normal and start_coro
\* it follows the task phase in both branches.
ClosureBlockFollows ==
    ~(path = "coro" /\ method = "run" /\ unit.separate_process)

\* A sequence that goes on to its next statement although a callable raised
AfterCall_suppressed(err, next) == [pc |-> next, raised |-> "none"]

\* What follows a call of the setup, task or closure callable in the four
\* sequences, none of which has a try statement: an error (err, "none" when
\* the callable returned) ends the sequence and reaches the caller.
AfterCall(err, next) ==
    IF err # "none" THEN [pc |-> "failed", raised |-> err]
                    ELSE [pc |-> next, raised |-> "none"]

\* "if self.allow_setup: self._execute_setup(**self.unit_setup_kwargs)"
SetupPhase ==
    /\ pc = "setup"
    /\ \E err \in (IF unit.allow_setup THEN {"none", "SetupError"} ELSE {"none"}) :
         LET after == AfterCall(err, "task")
         IN  /\ thrown' = err
             /\ pc' = after.pc /\ raised' = after.raised
             /\ events' = IF unit.allow_setup /\ err = "none"
                           THEN Append(events, "setup") ELSE events
    /\ UNCHANGED <<unit, joined, process, method, path, lastTrace, dispatches, termd, called>>
    /\ UNCHANGED hvars
    /\ UNCHANGED lvars
    /\ UNCHANGED jvars
    /\ UNCHANGED cvars

\* "Run Task", in process: task_object.run / start (run_coro / start_coro
\* awaited when the task is asynchronous) returns when the task is over.
TaskLocal ==
    /\ pc = "task" /\ ~unit.separate_process
    /\ called' = IF path = "coro" /\ unit.task_is_async
                  THEN (IF method = "run" THEN "run_coro" ELSE "start_coro")
                  ELSE method
    /\ \E err \in {"none", "TaskError"} :
         LET after == AfterCall(err, IF ClosureBlockFollows THEN "closure?" ELSE "joined!")
         IN  /\ thrown' = err
             /\ pc' = after.pc /\ raised' = after.raised
             /\ events' = IF err = "none" THEN Append(events, "task") ELSE events
    /\ UNCHANGED <<unit, joined, process, method, path, lastTrace, dispatches, termd>>
    /\ UNCHANGED hvars
    /\ UNCHANGED lvars
    /\ UNCHANGED jvars
    /\ UNCHANGED cvars

\* "Run Task", separate process: self.task_object is read through the
\* property, target_object_method binds the task's method, and the handle
\* is started; the sequence goes on as soon as start() has returned.
TaskRemote ==
    /\ pc = "task" /\ unit.separate_process
    /\ IF task_object_raises
       THEN /\ pc' = "failed" /\ raised' = "TypeError"
            /\ UNCHANGED <<process, events, termd>>
       ELSE \E f1 \in BOOLEAN, f2 \in BOOLEAN :
              LET bound == target_object_method(process, "task", method, "stc")
                  res   == SeparateProcess_start(bound, f1, f2)
              IN  /\ process' = res.process
                  /\ termd' = FALSE
                  /\ IF res.raised
                     THEN /\ pc' = "failed" /\ raised' = "StartError"
                          /\ UNCHANGED events
                     ELSE /\ events' = Append(events, "launch")
                          /\ pc' = IF ClosureBlockFollows THEN "closure?" ELSE "joined!"
                          /\ UNCHANGED raised
    /\ UNCHANGED <<unit, joined, method, path, lastTrace, dispatches, thrown, called>>
    /\ UNCHANGED hvars
    /\ UNCHANGED lvars
    /\ UNCHANGED jvars
    /\ UNCHANGED cvars

\* "if self.allow_closure:" and, for a separate process, the choice between
\* waiting for the process and the "Process could still be running" warning.
ClosureGate ==
    /\ pc = "closure?"
    /\ IF ~unit.allow_closure
       THEN pc' = "joined!" /\ UNCHANGED <<events, raised>>
       ELSE IF ~unit.separate_process
       THEN pc' = "closure" /\ UNCHANGED <<events, raised>>
       ELSE IF unit.await_closure
       THEN pc' = "await" /\ UNCHANGED <<events, raised>>
       ELSE IF WarnRaises
       THEN pc' = "failed" /\ raised' = "TypeError" /\ UNCHANGED events
       ELSE pc' = "closure" /\ events' = Append(events, "warning") /\ UNCHANGED raised
    /\ UNCHANGED <<unit, joined, process, method, path, lastTrace, dispatches, termd,
                   thrown, called>>
    /\ UNCHANGED hvars
    /\ UNCHANGED lvars
    /\ UNCHANGED jvars
    /\ UNCHANGED cvars

\* A wait that does not wait.
JoinReturnsAtOnce(p) == TRUE

\* self.process.join() and "await self.process.join_async()" with no
\* timeout: Process.join(None) returns, and the polling loop
\* "while self._process.exitcode is None" ends, once the process has exited.
JoinReturns(p) == HasExitCode(p)

AwaitProcess ==
    /\ pc = "await"
    /\ JoinReturns(process)
    /\ events' = Append(events, "awaited")
    /\ pc' = "closure"
    /\ UNCHANGED <<unit, joined, process, method, path, raised, lastTrace, dispatches, termd,
                   thrown, called>>
    /\ UNCHANGED hvars
    /\ UNCHANGED lvars
    /\ UNCHANGED jvars
    /\ UNCHANGED cvars

\* "self._execute_closure(**self.unit_closure_kwargs)", awaited when it is a
\* coroutine function on the cooperative path.
ClosurePhase ==
    /\ pc = "closure"
    /\ \E err \in {"none", "ClosureError"} :
         LET after == AfterCall(err, "joined!")
         IN  /\ thrown' = err
             /\ pc' = after.pc /\ raised' = after.raised
             /\ events' = IF err = "none" THEN Append(events, "closure") ELSE events
    /\ UNCHANGED <<unit, joined, process, method, path, lastTrace, dispatches, termd, called>>
    /\ UNCHANGED hvars
    /\ UNCHANGED lvars
    /\ UNCHANGED jvars
    /\ UNCHANGED cvars

\* "self._joined = True", the last statement of the four sequences.
SetJoined ==
    /\ pc = "joined!"
    /\ joined' = TRUE
    /\ events' = Append(events, "joined")
    /\ pc' = "done"
    /\ lastTrace' = [lastTrace EXCEPT ![<<path, method>>] = events']
    /\ UNCHANGED <<unit, process, method, path, raised, dispatches, termd, thrown, called>>
    /\ UNCHANGED hvars
    /\ UNCHANGED lvars
    /\ UNCHANGED jvars
    /\ UNCHANGED cvars

\* The task running in the separate process returns.
ProcessExits ==
    /\ unit.separate_process /\ process.status = "running"
    /\ process' = [process EXCEPT !.status = "exited"]
    /\ UNCHANGED uvars
    /\ UNCHANGED hvars
    /\ UNCHANGED lvars
    /\ UNCHANGED jvars
    /\ UNCHANGED cvars

\* terminate() that leaves the process alone
terminate_nothing(p) == p

\* ProcessingUnit.terminate on a unit with a separate process: Process.terminate
terminate_process(p) == ProcessTerminate(p)

\* ProcessingUnit.terminate, called by another thread or coroutine at any
\* point of a dispatch after the process was started.
terminate ==
    /\ unit.separate_process /\ process.status \in {"running", "exited"}
    /\ process' = terminate_process(process)
    /\ termd' = (termd \/ process.status = "running")
    /\ UNCHANGED <<unit, joined, pc, method, path, events, raised, lastTrace, dispatches,
                   thrown, called>>
    /\ UNCHANGED hvars
    /\ UNCHANGED lvars
    /\ UNCHANGED jvars
    /\ UNCHANGED cvars

Next ==
    \/ run
    \/ start
    \/ run_async_task
    \/ start_async_task
    \/ CoroBegins
    \/ SetupPhase
    \/ TaskLocal
    \/ TaskRemote
    \/ ClosureGate
    \/ AwaitProcess
    \/ ClosurePhase
    \/ SetJoined
    \/ ProcessExits
    \/ terminate
    \/ \E b \in BOOLEAN : set_await_closure(b)
    \/ \E f \in {"plain", "coro"} : set_setup(f)
    \/ \E f \in {"plain", "coro"} : set_closure(f)

Spec == Init /\ [][Next]_vars

\* ------------------------------------------ SeparateProcess used on its own
\* The unit's variables while a bare handle is what is being exercised.
UnitIdle ==
    /\ unit = [name |-> "None", separate_process |-> FALSE, allow_setup |-> FALSE,
               allow_closure |-> FALSE, await_closure |-> FALSE,
               execute_setup |-> "plain", execute_closure |-> "plain",
               task_is_async |-> FALSE]
    /\ joined = TRUE /\ pc = "idle" /\ method = "run" /\ path = "normal"
    /\ events = <<>> /\ raised = "none" /\ lastTrace = NoTrace
    /\ dispatches = 0 /\ termd = FALSE
    /\ thrown = "none" /\ called = "none"

\* SeparateProcess(target, name, args, kwargs, daemon): __init__ constructs
\* the Process at once.
HInit ==
    /\ \E t \in {"None", "log"}, n \in Names, a \in ArgsSet, k \in KwargsSet, d \in Daemons :
          process = construct(t, n, a, k, d)
    /\ HandleIdle
    /\ UnitIdle
    /\ LifecycleIdle
    /\ JoinStopIdle
    /\ NotBuilding

Timeouts  == {NoTimeout} \cup (0..MaxTimeout)
Intervals == 0..MaxInterval

\* handle.start()
Handle_start ==
    /\ hpc = "idle" /\ starts < MaxStarts
    /\ \E f1 \in BOOLEAN, f2 \in BOOLEAN :
         LET res == SeparateProcess_start(process, f1, f2)
         IN  /\ process' = res.process
             /\ startRes' = [raised |-> res.raised, attempts |-> res.attempts,
                             created |-> res.created, before |-> process,
                             osFails1 |-> f1, osFails2 |-> f2]
    /\ starts' = starts + 1
    /\ exitAt' = IF process'.status = "exited" THEN exitAt ELSE -1
    /\ UNCHANGED <<hpc, jn, joins, now, pickled>>
    /\ UNCHANGED uvars
    /\ UNCHANGED lvars
    /\ UNCHANGED jvars
    /\ UNCHANGED cvars

\* The target running in the process returns.
Handle_exit ==
    /\ process.status = "running"
    /\ process' = [process EXCEPT !.status = "exited"]
    /\ exitAt' = now
    /\ UNCHANGED <<hpc, startRes, starts, jn, joins, now, pickled>>
    /\ UNCHANGED uvars
    /\ UNCHANGED lvars
    /\ UNCHANGED jvars
    /\ UNCHANGED cvars

\* time.perf_counter() advances.
Tick ==
    /\ now < MaxTime
    /\ now' = now + 1
    /\ UNCHANGED <<process, hpc, startRes, starts, jn, joins, exitAt, pickled>>
    /\ UNCHANGED uvars
    /\ UNCHANGED lvars
    /\ UNCHANGED jvars
    /\ UNCHANGED cvars

\* The deadline of the join in progress has passed.
DeadlinePassed == jn.timeout # NoTimeout /\ now - jn.start >= jn.timeout

\* The record of a join that returns now: whether the process is alive and
\* when it exited, as things stand at the return.
Returned(j) == [j EXCEPT !.returned = TRUE, !.alive = is_alive(process), !.exitAt = exitAt]

\* SeparateProcess.join(timeout) is entered: self._process.join(timeout)
\* blocks (the process must have been started).
Handle_join(timeout) ==
    /\ hpc = "idle" /\ process.status \in {"running", "exited"}
    /\ joins < MaxJoins /\ joins' = joins + 1
    /\ jn' = [kind |-> "join", start |-> now, timeout |-> timeout, interval |-> 0,
              sleepStart |-> now, warnings |-> 0, returned |-> FALSE, alive |-> FALSE,
              exitAt |-> -1]
    /\ hpc' = "join"
    /\ UNCHANGED <<process, startRes, starts, now, exitAt, pickled>>
    /\ UNCHANGED uvars
    /\ UNCHANGED lvars
    /\ UNCHANGED jvars
    /\ UNCHANGED cvars

\* SeparateProcess.join, never warning
join_warns_never(p) == FALSE

\* SeparateProcess.join after Process.join came back:
\* "if self._process.exitcode is None: warnings.warn(TimeoutWarning(...))"
join_warns(p) == ~HasExitCode(p)

\* Process.join(timeout) comes back when the process has exited or the
\* timeout is over, and SeparateProcess.join returns.
Handle_join_returns ==
    /\ hpc = "join"
    /\ HasExitCode(process) \/ DeadlinePassed
    /\ jn' = [Returned(jn) EXCEPT !.warnings = IF join_warns(process) THEN 1 ELSE 0]
    /\ hpc' = "idle"
    /\ UNCHANGED <<process, startRes, starts, joins, now, exitAt, pickled>>
    /\ UNCHANGED uvars
    /\ UNCHANGED lvars
    /\ UNCHANGED jvars
    /\ UNCHANGED cvars

\* SeparateProcess.join_async(timeout, interval) is entered: start_time is
\* taken and the loop condition "self._process.exitcode is None" is tested;
\* the coroutine returns at once or suspends in asyncio.sleep(interval).
Handle_join_async(timeout, interval) ==
    /\ hpc = "idle" /\ process.status \in {"running", "exited"}
    /\ joins < MaxJoins /\ joins' = joins + 1
    /\ jn' = [kind |-> "join_async", start |-> now, timeout |-> timeout,
              interval |-> interval, sleepStart |-> now, warnings |-> 0,
              returned |-> HasExitCode(process), alive |-> is_alive(process),
              exitAt |-> exitAt]
    /\ hpc' = IF HasExitCode(process) THEN "idle" ELSE "sleep"
    /\ UNCHANGED <<process, startRes, starts, now, exitAt, pickled>>
    /\ UNCHANGED uvars
    /\ UNCHANGED lvars
    /\ UNCHANGED jvars
    /\ UNCHANGED cvars

\* asyncio.sleep(interval) is over, not before interval has passed: the
\* timeout is tested first, then the loop condition, and the coroutine
\* returns or sleeps again.
Handle_join_async_wakes ==
    /\ hpc = "sleep"
    /\ now - jn.sleepStart >= jn.interval
    /\ IF DeadlinePassed
       THEN /\ jn' = [Returned(jn) EXCEPT !.warnings = @ + 1]
            /\ hpc' = "idle"
       ELSE IF HasExitCode(process)
       THEN /\ jn' = Returned(jn)
            /\ hpc' = "idle"
       ELSE /\ jn' = [jn EXCEPT !.sleepStart = now]
            /\ hpc' = "sleep"
    /\ UNCHANGED <<process, startRes, starts, joins, now, exitAt, pickled>>
    /\ UNCHANGED uvars
    /\ UNCHANGED lvars
    /\ UNCHANGED jvars
    /\ UNCHANGED cvars

\* The keys of the handle's __dict__: __init__ assigns self.method_wrapper and
\* self._process, construct assigns self.name.
InstanceDict == {"method_wrapper", "_process", "name"}

\* SeparateProcess.__getstate__: the copy of __dict__ is indexed with
\* "__process"; the configuration is taken from the Process when there is
\* one.
getstate(p) ==
    IF "__process" \notin InstanceDict
    THEN [error |-> "KeyError", new_process_kwargs |-> NoProc]
    ELSE [error |-> "none", new_process_kwargs |-> p]

\* SeparateProcess.__setstate__: create_process(**new_process_kwargs) on the
\* rebuilt object, which holds no Process.
setstate(st) ==
    IF st.new_process_kwargs # NoProc
    THEN LET k == st.new_process_kwargs
         IN  create_process(NoProc, k.target, k.name, k.args, k.kwargs, k.daemon)
    ELSE NoProc

\* pickle.loads(pickle.dumps(handle))
Handle_pickle ==
    /\ hpc = "idle" /\ pickled.state = "none"
    /\ LET st == getstate(process)
       IN  pickled' = IF st.error # "none"
                      THEN [state |-> st.error, process |-> NoProc, original |-> process]
                      ELSE [state |-> "ok", process |-> setstate(st), original |-> process]
    /\ UNCHANGED <<process, hpc, startRes, starts, jn, joins, now, exitAt>>
    /\ UNCHANGED uvars
    /\ UNCHANGED lvars
    /\ UNCHANGED jvars
    /\ UNCHANGED cvars

HNext ==
    \/ Handle_start
    \/ Handle_exit
    \/ Tick
    \/ \E t \in Timeouts : Handle_join(t)
    \/ Handle_join_returns
    \/ \E t \in Timeouts, i \in Intervals : Handle_join_async(t, i)
    \/ Handle_join_async_wakes
    \/ Handle_pickle

HSpec == HInit /\ [][HNext]_vars

\* ---------------------------------------- the lifecycle of a handle (LSpec)
\* construct(..., delay=True): no Process is created; target and name are
\* kept when not None, args and kwargs when not empty, daemon when true.
construct_delayed(target, name, args, kwargs, daemon) ==
    [target |-> target, name |-> name, args |-> args, kwargs |-> kwargs,
     daemon |-> IF daemon = "True" THEN "True" ELSE "None"]

\* Process.is_alive() on a closed Process raises ValueError, and
\* SeparateProcess.is_alive passes it on.
is_alive_raises(p) == p.status = "closed"

\* SeparateProcess.close: a running process is terminated, then
\* Process.close() is called, which raises ValueError while the terminated
\* process has not been reaped; self._process keeps the closed Process.
SeparateProcess_close(p, reaped) ==
    IF p = NoProc THEN [process |-> p, error |-> "none"]
    ELSE IF is_alive_raises(p) THEN [process |-> p, error |-> "ValueError"]
    ELSE IF is_alive(p) /\ ~reaped
    THEN [process |-> ProcessTerminate(p), error |-> "ValueError"]
    ELSE [process |-> [p EXCEPT !.status = "closed"], error |-> "none"]

\* SeparateProcess.restart: terminate when alive, create_process(), and one
\* Process.start() with no retry.
SeparateProcess_restart(p, osFails) ==
    IF p # NoProc /\ is_alive_raises(p)
    THEN [process |-> p, old |-> p, error |-> "ValueError"]
    ELSE LET q == create_process(p, "None", "None", EmptyArgs, EmptyKwargs, "None")
         IN  [process |-> IF osFails THEN q ELSE [q EXCEPT !.status = "running"],
              old     |-> ProcessTerminate(p),
              error   |-> IF osFails THEN "StartError" ELSE "none"]

\* SeparateProcess(target, name, args, kwargs, daemon, delay): with delay the
\* handle holds no Process and the arguments are stashed.
LInit ==
    /\ \E t \in {"None", "log"}, a \in ArgsSet, k \in KwargsSet, d \in {"None", "True"},
          delay \in BOOLEAN :
          /\ process = IF delay THEN NoProc ELSE construct(t, "sep", a, k, d)
          /\ stash = IF delay THEN construct_delayed(t, "sep", a, k, d) ELSE NoStash
    /\ old = NoProc /\ lop = NoOp /\ ops = 0
    /\ HandleIdle
    /\ UnitIdle
    /\ JoinStopIdle
    /\ NotBuilding

\* The arguments create_process is called with.
Given ==
    [target : {"None", "run_method"}, name : {"None"}, args : ArgsSet,
     kwargs : KwargsSet, daemon : {"None", "True"}]

\* handle.construct() with no arguments: delay is False, so it is
\* create_process(None, None, (), {}, None).
L_construct ==
    /\ ops < MaxOps /\ ops' = ops + 1
    /\ process' = create_process(process, "None", "None", EmptyArgs, EmptyKwargs, "None")
    /\ old' = process
    /\ lop' = [op |-> "construct", error |-> "none", result |-> FALSE, given |-> NoStash]
    /\ UNCHANGED stash
    /\ UNCHANGED <<uvars, hvars, jvars, cvars>>

\* handle.create_process(target, name, args, kwargs, daemon)
L_create_process(g) ==
    /\ ops < MaxOps /\ ops' = ops + 1
    /\ process' = create_process(process, g.target, g.name, g.args, g.kwargs, g.daemon)
    /\ old' = process
    /\ lop' = [op |-> "create_process", error |-> "none", result |-> FALSE, given |-> g]
    /\ UNCHANGED stash
    /\ UNCHANGED <<uvars, hvars, jvars, cvars>>

\* handle.start()
L_start ==
    /\ ops < MaxOps /\ ops' = ops + 1
    /\ \E f1 \in BOOLEAN, f2 \in BOOLEAN :
         LET res == SeparateProcess_start(process, f1, f2)
         IN  /\ process' = res.process
             /\ old' = IF res.created = 1 THEN process ELSE old
             /\ lop' = [op |-> "start", error |-> IF res.raised THEN "StartError" ELSE "none",
                        result |-> FALSE, given |-> NoStash]
    /\ UNCHANGED stash
    /\ UNCHANGED <<uvars, hvars, jvars, cvars>>

\* The target running in the process returns.
L_exit ==
    /\ process.status = "running"
    /\ process' = [process EXCEPT !.status = "exited"]
    /\ UNCHANGED lvars
    /\ UNCHANGED jvars
    /\ UNCHANGED cvars
    /\ UNCHANGED <<uvars, hvars, jvars, cvars>>

\* handle.close()
L_close ==
    /\ ops < MaxOps /\ ops' = ops + 1
    /\ \E reaped \in BOOLEAN :
         LET res == SeparateProcess_close(process, reaped)
         IN  /\ process' = res.process
             /\ lop' = [op |-> "close", error |-> res.error, result |-> FALSE,
                        given |-> NoStash]
    /\ UNCHANGED <<stash, old>>
    /\ UNCHANGED <<uvars, hvars, jvars, cvars>>

\* handle.restart()
L_restart ==
    /\ ops < MaxOps /\ ops' = ops + 1
    /\ \E osFails \in BOOLEAN :
         LET res == SeparateProcess_restart(process, osFails)
         IN  /\ process' = res.process
             /\ old' = res.old
             /\ lop' = [op |-> "restart", error |-> res.error, result |-> FALSE,
                        given |-> NoStash]
    /\ UNCHANGED stash
    /\ UNCHANGED <<uvars, hvars, jvars, cvars>>

\* handle.is_alive()
L_is_alive ==
    /\ ops < MaxOps /\ ops' = ops + 1
    /\ lop' = [op |-> "is_alive",
               error |-> IF process # NoProc /\ is_alive_raises(process)
                         THEN "ValueError" ELSE "none",
               result |-> is_alive(process), given |-> NoStash]
    /\ UNCHANGED <<process, stash, old>>
    /\ UNCHANGED <<uvars, hvars, jvars, cvars>>

LNext ==
    \/ L_construct
    \/ \E g \in Given : L_create_process(g)
    \/ L_start
    \/ L_exit
    \/ L_close
    \/ L_restart
    \/ L_is_alive

LSpec == LInit /\ [][LNext]_vars

\* ------------------------------------- join and stop of the unit (JSpec)
\* A unit or cluster with its task, being dispatched while another thread or
\* coroutine calls join, join_async, stop or stop_async on it.
JInit ==
    /\ \E sp \in BOOLEAN, su \in BOOLEAN, c \in BOOLEAN :
        /\ unit = [name |-> "None", separate_process |-> sp, allow_setup |-> su,
                   allow_closure |-> c, await_closure |-> FALSE,
                   execute_setup |-> "plain", execute_closure |-> "plain",
                   task_is_async |-> FALSE]
        /\ process = IF sp THEN new_process("None", "False", EmptyKwargs) ELSE NoProc
    /\ isCluster \in BOOLEAN
    /\ ujn = NoUnitJoin /\ stp = NoStop /\ ucalls = 0
    /\ joined = TRUE
    /\ pc = "idle" /\ method = "run" /\ path = "normal"
    /\ events = <<>> /\ raised = "none"
    /\ lastTrace = NoTrace /\ dispatches = 0 /\ termd = FALSE
    /\ thrown = "none" /\ called = "none"
    /\ HandleIdle
    /\ LifecycleIdle
    /\ NotBuilding

\* A timeout test that succeeds whatever the timeout
UnitDeadlinePassed_always == TRUE

\* The deadline of the unit's join in progress has passed:
\* "timeout is not None and (time.perf_counter() - start_time) >= timeout"
UnitDeadlinePassed == ujn.timeout # NoTimeout /\ now - ujn.start >= ujn.timeout

\* join handing the whole timeout on to the process handle
JoinRemaining_whole(timeout, elapsed) == timeout

\* "timeout = timeout - (time.perf_counter() - start_time)"
JoinRemaining(timeout, elapsed) == timeout - elapsed

\* The statements of join / join_async after the polling loop, for the call
\* recorded in j: the remaining timeout is computed when there is a timeout,
\* and a separate-process unit joins its process handle with it.
\* Process.join raises AssertionError on a process that was never started;
\* a timeout below zero is an expired one for the handle.
AfterPolling(j) ==
    LET limited == j.timeout # NoTimeout
        rem     == IF limited THEN JoinRemaining(j.timeout, now - j.start) ELSE 0
        ht      == IF ~limited THEN NoTimeout ELSE IF rem < 0 THEN 0 ELSE rem
        seen    == [j EXCEPT !.why = "joined", !.limited = limited, !.remaining = rem]
    IN  IF ~unit.separate_process
        THEN /\ ujn' = [seen EXCEPT !.phase = "returned"]
             /\ UNCHANGED <<hpc, jn>>
        ELSE IF j.kind = "join" /\ process.status \notin {"running", "exited"}
        THEN /\ ujn' = [seen EXCEPT !.phase = "returned", !.handle = "raised"]
             /\ UNCHANGED <<hpc, jn>>
        ELSE /\ ujn' = [seen EXCEPT !.phase = "handle", !.handle = "called"]
             /\ jn' = [kind |-> j.kind, start |-> now, timeout |-> ht,
                       interval |-> j.interval, sleepStart |-> now, warnings |-> 0,
                       returned |-> (j.kind = "join_async" /\ HasExitCode(process)),
                       alive |-> is_alive(process), exitAt |-> exitAt]
             /\ hpc' = IF j.kind = "join" THEN "join"
                       ELSE IF HasExitCode(process) THEN "idle" ELSE "sleep"

\* join / join_async is entered: start_time is taken and the loop condition
\* "not self._joined" is tested for the first time.
BeginJoin(kind, timeout, interval) ==
    LET j == [NoUnitJoin EXCEPT !.kind = kind, !.start = now, !.timeout = timeout,
                                !.interval = interval, !.sleepStart = now]
    IN  IF joined
        THEN AfterPolling(j)
        ELSE /\ ujn' = [j EXCEPT !.phase = IF kind = "join" THEN "poll" ELSE "sleep"]
             /\ UNCHANGED <<hpc, jn>>

\* No join or stop of the unit is in progress.
UnitCallFree ==
    /\ ujn.phase \in {"none", "returned"} /\ stp.phase # "join" /\ hpc = "idle"
    /\ ucalls < MaxUnitCalls

\* unit.join(timeout)
Unit_join(timeout) ==
    /\ UnitCallFree /\ ucalls' = ucalls + 1
    /\ BeginJoin("join", timeout, 0)
    /\ UNCHANGED <<isCluster, stp>>
    /\ UNCHANGED <<process, startRes, starts, joins, now, exitAt, pickled>>
    /\ UNCHANGED <<uvars, lvars, cvars>>

\* unit.join_async(timeout, interval)
Unit_join_async(timeout, interval) ==
    /\ UnitCallFree /\ ucalls' = ucalls + 1
    /\ BeginJoin("join_async", timeout, interval)
    /\ UNCHANGED <<isCluster, stp>>
    /\ UNCHANGED <<process, startRes, starts, joins, now, exitAt, pickled>>
    /\ UNCHANGED <<uvars, lvars, cvars>>

\* One round of the loop of join that ends it: "while not self._joined" is
\* false, or the timeout test in its body is true.
Unit_join_polls ==
    /\ ujn.phase = "poll"
    /\ IF joined THEN AfterPolling(ujn)
       ELSE /\ UnitDeadlinePassed
            /\ ujn' = [ujn EXCEPT !.phase = "returned", !.why = "timeout"]
            /\ UNCHANGED <<hpc, jn>>
    /\ UNCHANGED <<isCluster, stp, ucalls>>
    /\ UNCHANGED <<process, startRes, starts, joins, now, exitAt, pickled>>
    /\ UNCHANGED <<uvars, lvars, cvars>>

\* asyncio.sleep(interval) in join_async is over: the timeout is tested
\* first, then the loop condition.
Unit_join_async_wakes ==
    /\ ujn.phase = "sleep"
    /\ now - ujn.sleepStart >= ujn.interval
    /\ IF UnitDeadlinePassed
       THEN /\ ujn' = [ujn EXCEPT !.phase = "returned", !.why = "timeout"]
            /\ UNCHANGED <<hpc, jn>>
       ELSE IF joined THEN AfterPolling(ujn)
       ELSE /\ ujn' = [ujn EXCEPT !.sleepStart = now]
            /\ UNCHANGED <<hpc, jn>>
    /\ UNCHANGED <<isCluster, stp, ucalls>>
    /\ UNCHANGED <<process, startRes, starts, joins, now, exitAt, pickled>>
    /\ UNCHANGED <<uvars, lvars, cvars>>

\* self.process.join(...) / await self.process.join_async(...) has returned,
\* and so does the unit's join.
Unit_join_returns ==
    /\ ujn.phase = "handle" /\ hpc = "idle"
    /\ ujn' = [ujn EXCEPT !.phase = "returned"]
    /\ UNCHANGED <<isCluster, stp, ucalls>>
    /\ UNCHANGED <<process, hvars>>
    /\ UNCHANGED <<uvars, lvars, cvars>>

\* ProcessingUnit.stop joining whatever its join argument says
ProcessingUnit_stop_joins_always(join, timeout) ==
    [taskStops |-> <<NoTaskStop>>, thenJoin |-> TRUE, joinTimeout |-> timeout]

\* ProcessingUnit.stop and stop_async: self._task_object.stop() with no
\* argument, then the unit's join when join is true.
ProcessingUnit_stop(join, timeout) ==
    [taskStops |-> <<NoTaskStop>>, thenJoin |-> join, joinTimeout |-> timeout]

\* ProcessingCluster.stop keeping the timeout to itself
ProcessingCluster_stop_keeps_timeout(join, timeout) ==
    [taskStops |-> <<[given |-> TRUE, join |-> join, timeout |-> NoTimeout]>>,
     thenJoin |-> join, joinTimeout |-> timeout]

\* ProcessingCluster.stop and stop_async:
\* self._task_object.stop(join=join, timeout=timeout), then the cluster's
\* join when join is true.
ProcessingCluster_stop(join, timeout) ==
    [taskStops |-> <<[given |-> TRUE, join |-> join, timeout |-> timeout]>>,
     thenJoin |-> join, joinTimeout |-> timeout]

\* unit.stop(join, timeout) or unit.stop_async(join, timeout, interval) up
\* to the return of the task's stop.
Unit_stop(kind, join, timeout, interval) ==
    /\ UnitCallFree /\ ucalls' = ucalls + 1
    /\ LET r == IF isCluster THEN ProcessingCluster_stop(join, timeout)
                             ELSE ProcessingUnit_stop(join, timeout)
       IN  stp' = [kind |-> kind, join |-> join, timeout |-> timeout,
                   interval |-> interval, taskStops |-> r.taskStops,
                   joinTimeout |-> r.joinTimeout,
                   phase |-> IF r.thenJoin THEN "join" ELSE "done"]
    /\ UNCHANGED <<isCluster, ujn>>
    /\ UNCHANGED <<process, hvars>>
    /\ UNCHANGED <<uvars, lvars, cvars>>

\* "if join: self.join(timeout=timeout)" and
\* "if join: await self.join_async(timeout=timeout, interval=interval)"
Unit_stop_joins ==
    /\ stp.phase = "join"
    /\ BeginJoin(IF stp.kind = "stop" THEN "join" ELSE "join_async",
                 stp.joinTimeout, stp.interval)
    /\ stp' = [stp EXCEPT !.phase = "joining"]
    /\ UNCHANGED <<isCluster, ucalls>>
    /\ UNCHANGED <<process, startRes, starts, joins, now, exitAt, pickled>>
    /\ UNCHANGED <<uvars, lvars, cvars>>

JNext ==
    \/ run
    \/ start_async_task
    \/ CoroBegins
    \/ SetupPhase
    \/ TaskLocal
    \/ TaskRemote
    \/ ClosureGate
    \/ ClosurePhase
    \/ SetJoined
    \/ ProcessExits
    \/ Tick
    \/ \E t \in Timeouts : Unit_join(t)
    \/ \E t \in Timeouts, i \in Intervals : Unit_join_async(t, i)
    \/ Unit_join_polls
    \/ Unit_join_async_wakes
    \/ Handle_join_returns
    \/ Handle_join_async_wakes
    \/ Unit_join_returns
    \/ \E j \in BOOLEAN, t \in Timeouts : Unit_stop("stop", j, t, 0)
    \/ \E j \in BOOLEAN, t \in Timeouts, i \in Intervals : Unit_stop("stop_async", j, t, i)
    \/ Unit_stop_joins

JSpec == JInit /\ [][JNext]_vars

\* ------------------------------- construction of units and clusters (CSpec)
\* What a construction is called with; DEFAULT_TASK is the class attribute,
\* None in ProcessingUnit and ProcessingCluster and a task class in a
\* subclass that sets it.
Arguments ==
    [name : Names, task : {"None", "task", "other"}, separate_process : BOOLEAN,
     daemon : {"False", "True"}, p_kwargs : KwargsSet,
     DEFAULT_TASK : {"None", "DefaultTask"}]

\* ProcessingUnit.construct(name, task, to_kwargs, daemon, p_kwargs) on an
\* object whose __init__ assignments are done (self.name and
\* self.separate_process set, _task_object None): the process handle for a
\* separate-process unit, then the task given or, when none was given,
\* DEFAULT_TASK(name=...), which is a TypeError while DEFAULT_TASK is None.
ProcessingUnit_construct(self, task, daemon, p_kwargs) ==
    LET handle == IF self.separate_process
                  THEN new_process(self.name, daemon, p_kwargs) ELSE NoProc
    IN  IF task # "None"
        THEN [error |-> "none", task_object |-> task, process |-> handle]
        ELSE IF self.DEFAULT_TASK = "None"
        THEN [error |-> "TypeError", task_object |-> "None", process |-> handle]
        ELSE [error |-> "none", task_object |-> self.DEFAULT_TASK, process |-> handle]

\* ProcessingUnit.__init__ with init=True: construct with the arguments given
ProcessingUnit_init(a) == ProcessingUnit_construct(a, a.task, a.daemon, a.p_kwargs)

\* ProcessingCluster.__init__: the parent's __init__ gets every argument but
\* runs with init=False, and construct is then called with the name alone,
\* its task, daemon and p_kwargs at their defaults.
ProcessingCluster_init(a) == ProcessingUnit_construct(a, "None", "False", EmptyKwargs)

\* Nothing has been constructed.
CInit ==
    /\ built = NoBuild
    /\ process = NoProc
    /\ UnitIdle
    /\ HandleIdle
    /\ LifecycleIdle
    /\ JoinStopIdle

\* ProcessingUnit(name, task, separate_process, daemon, p_kwargs)
Build_unit(a) ==
    /\ built.cls = "none"
    /\ LET r == ProcessingUnit_init(a)
       IN  built' = [cls |-> "unit", given |-> a, error |-> r.error,
                     task_object |-> r.task_object, process |-> r.process]
    /\ UNCHANGED <<process, uvars, hvars, lvars, jvars>>

\* ProcessingCluster(name, task, separate_process, daemon, p_kwargs)
Build_cluster(a) ==
    /\ built.cls = "none"
    /\ LET r == ProcessingCluster_init(a)
       IN  built' = [cls |-> "cluster", given |-> a, error |-> r.error,
                     task_object |-> r.task_object, process |-> r.process]
    /\ UNCHANGED <<process, uvars, hvars, lvars, jvars>>

CNext ==
    \/ \E a \in Arguments : Build_unit(a)
    \/ \E a \in Arguments : Build_cluster(a)

CSpec == CInit /\ [][CNext]_vars

\* ================================================================ claims
\* The phases of a dispatch among its events ("launch" is the task phase of
\* a separate-process unit).
IsPhase(e) == e \in {"setup", "task", "launch", "closure"}
PhaseName(e) == IF e = "launch" THEN "task" ELSE e
PhasesOf(es) ==
    LET ph == SelectSeq(es, IsPhase) IN [i \in 1..Len(ph) |-> PhaseName(ph[i])]
AllowedPhases ==
    (IF unit.allow_setup THEN <<"setup">> ELSE <<>>) \o <<"task">>
        \o (IF unit.allow_closure THEN <<"closure">> ELSE <<>>)
Occurs(e, es) == \E i \in 1..Len(es) : es[i] = e

\* C1: a dispatch that has completed, in any mode and for run as for start,
\* has invoked exactly the allowed phases, each once, in the order setup,
\* task, closure.
C1_AllowedPhasesInOrder == pc = "done" => PhasesOf(events) = AllowedPhases

\* C2: joined is false from the first statement of a dispatch until all its
\* allowed phases have completed: never true while a phase is pending, and
\* true at the end only with every allowed phase done (skipped phases
\* included).
C2_JoinedOnlyAfterAllPhases ==
    /\ pc \in {"setup", "task", "closure?", "await", "closure", "joined!", "failed"} => ~joined
    /\ pc = "done" => joined
    /\ (joined /\ pc = "done") => PhasesOf(events) = AllowedPhases

\* C3: under one configuration the completed dispatches of the blocking and
\* of the cooperative path, of run and of start, show the same sequence of
\* lifecycle events.
C3_SameEventsOnEveryPath ==
    \A k1 \in Paths \X Methods, k2 \in Paths \X Methods :
        (lastTrace[k1] # <<>> /\ lastTrace[k2] # <<>>) => lastTrace[k1] = lastTrace[k2]

\* C4: with separate_process, allow_closure and not await_closure, a dispatch
\* that has launched the process goes on to the race warning, the closure
\* and joined = true, and ends normally.
C4_RaceWarningThenClosure ==
    (/\ unit.separate_process /\ unit.allow_closure /\ ~unit.await_closure
     /\ pc \in {"done", "failed"} /\ Occurs("launch", events))
    => /\ pc = "done" /\ joined
       /\ SubSeq(events, Len(events) - 3, Len(events))
            = <<"launch", "warning", "closure", "joined">>

\* C5: with separate_process, allow_closure and await_closure, the closure is
\* invoked only when the process this dispatch launched has exited.
C5_ClosureAfterProcessExit ==
    [][(ClosurePhase /\ unit.separate_process /\ unit.await_closure)
        => (process.status = "exited" /\ Occurs("launch", events)
            /\ events[Len(events)] = "awaited")]_vars

\* C5 happens: both a blocking run and a cooperative start have waited for
\* the process and then run the closure.
C5_Witness ==
    /\ unit.separate_process /\ unit.await_closure
    /\ Occurs("closure", lastTrace[<<"normal", "run">>])
    /\ Occurs("closure", lastTrace[<<"coro", "start">>])

SameLaunch(p, q) ==
    /\ p.target = q.target /\ p.args = q.args
    /\ p.kwargs = q.kwargs /\ p.daemon = q.daemon

\* C7: pickling and unpickling a handle that holds a process succeeds and
\* gives a handle with the same configuration, the name included, whose
\* process has not been started.
C7_PickleRoundTrip ==
    (pickled.state # "none" /\ pickled.original # NoProc)
    => /\ pickled.state = "ok"
       /\ SameLaunch(pickled.process, pickled.original)
       /\ pickled.process.name = pickled.original.name
       /\ pickled.process.status = "initial"

\* C8: start() on a handle whose process has run to completion, when it
\* returns, has put in place a fresh process with the launch configuration
\* of the exited one, and that process is alive.
C8_StartAgainAfterExit ==
    [][(Handle_start /\ process.status = "exited" /\ ~startRes'.raised)
        => /\ is_alive(process')
           /\ SameLaunch(process', process)
           /\ startRes'.created = 1]_vars

\* C8 happens: a handle with an entry function and arguments was started
\* again after its process had exited, and is alive.
C8_Witness ==
    /\ startRes.before.status = "exited" /\ ~startRes.raised
    /\ startRes.before.target = "log" /\ startRes.before.args # EmptyArgs
    /\ startRes.before.kwargs # EmptyKwargs /\ startRes.before.daemon = "True"
    /\ is_alive(process)

\* C9: start() calls Process.start once when that succeeds, creating no
\* process; when it fails, it creates one process with the configuration of
\* the failed one and calls Process.start a second and last time, and the
\* call raises exactly when that second start fails.
C9_RetryStartOnce ==
    [][Handle_start =>
        LET r == startRes'
            firstFails == ProcessStartRaises(process, r.osFails1)
        IN  /\ r.attempts <= 2
            /\ ~firstFails => (/\ r.attempts = 1 /\ r.created = 0 /\ ~r.raised
                               /\ process' = [process EXCEPT !.status = "running"])
            /\ firstFails => (/\ r.attempts = 2 /\ r.created = 1
                              /\ SameLaunch(process', process)
                              /\ r.raised = r.osFails2
                              /\ process'.status = IF r.osFails2 THEN "initial" ELSE "running")]_vars

\* C9 happens: a start whose first and second attempt both failed has
\* raised, after a start that succeeded at the first attempt.
C9_Witness ==
    /\ starts = 2 /\ startRes.raised /\ startRes.attempts = 2
    /\ startRes.before.status = "running" /\ startRes.before.target = "log"

\* C10: a join or join_async that returns while the process still runs has
\* warned exactly once and has left the process alive; one that returns when
\* the process had exited before the deadline (or with no deadline) has not
\* warned.
C10_TimeoutWarning ==
    jn.returned =>
        /\ jn.alive => jn.warnings = 1
        /\ (jn.exitAt # -1 /\ (jn.timeout = NoTimeout \/ jn.exitAt < jn.start + jn.timeout))
              => jn.warnings = 0

\* C18: an error raised by the setup callable, by the task called in process
\* or by the closure callable ends the dispatch with that very error at the
\* caller (or in the scheduled task): no later phase runs, joined stays
\* false, and nothing of the dispatch happens afterwards.
C18_ErrorsPropagate ==
    /\ [](thrown # "none" => (pc = "failed" /\ raised = thrown /\ ~joined))
    /\ [](raised = "SetupError" => events = <<>>)
    /\ [](raised = "TaskError" => (~Occurs("task", events) /\ ~Occurs("closure", events)))
    /\ [](raised = "ClosureError" => (~Occurs("closure", events) /\ ~Occurs("joined", events)))
    /\ [][(pc = "failed" /\ pc' = "failed") => (events' = events /\ joined' = joined)]_vars

\* C18 happens: on the cooperative path the task raised after the setup had
\* run, with a closure allowed that was not invoked.
C18_Witness ==
    /\ pc = "failed" /\ raised = "TaskError" /\ path = "coro"
    /\ unit.allow_closure /\ events = <<"setup">>

\* run_coro -> run, start_coro -> start
BaseMethod(c) == IF c \in {"run", "run_coro"} THEN "run" ELSE "start"

\* C19: a process the unit launches has run_method as entry point and the
\* task and the method name of the dispatch among its keyword arguments; in
\* process the method of that name (or its coroutine variant) is called.
C19_DispatcherAndMethodName ==
    /\ [][(TaskRemote /\ events' = Append(events, "launch"))
            => (/\ process'.status = "running"
                /\ process'.target = "run_method"
                /\ process'.kwargs.obj = "task"
                /\ process'.kwargs.method = method)]_vars
    /\ [](process.status = "running"
            => (/\ process.target = "run_method" /\ process.kwargs.obj = "task"
                /\ process.kwargs.method \in Methods))
    /\ [](called # "none" => BaseMethod(called) = method)

\* C19 happens: a start on the cooperative path has launched the process
\* bound to the task's start method.
C19_Witness ==
    /\ process.status = "running" /\ process.kwargs.method = "start"
    /\ method = "start" /\ path = "coro" /\ Occurs("launch", events)

\* C20: run and start enter the cooperative sequence exactly when is_async()
\* holds and the blocking one otherwise; run_async_task and start_async_task
\* only schedule the cooperative sequence, running nothing themselves.
C20_EntryPointsChoosePath ==
    /\ [][(run \/ start)
            => (/\ pc' = "setup"
                /\ path' = IF is_async THEN "coro" ELSE "normal")]_vars
    /\ [][(run_async_task \/ start_async_task)
            => (/\ pc' = "scheduled" /\ path' = "coro"
                /\ events' = <<>> /\ joined' = joined /\ process' = process)]_vars
    /\ [][CoroBegins => (path' = "coro" /\ path = "coro")]_vars

\* C20 happens: with is_async() false, a blocking run took the blocking
\* sequence and a scheduled start took the cooperative one.
C20_Witness ==
    /\ ~is_async
    /\ lastTrace[<<"normal", "run">>] # <<>>
    /\ lastTrace[<<"coro", "start">>] # <<>>

\* The process runs what was stashed: entry function, positional and
\* keyword arguments.
RunsStashed(p, st) ==
    p.target = st.target /\ p.args = st.args /\ p.kwargs = st.kwargs

\* C14: after close() the handle answers is_alive() with false instead of
\* failing, and a later start or restart launches a process with the entry
\* function, arguments and daemon flag the closed one had.
C14_CloseLeavesUsableHandle ==
    /\ [][(L_close /\ lop'.error = "none") => SameLaunch(process', process)]_vars
    /\ [][(L_is_alive /\ lop.op = "close") => (lop'.error = "none" /\ ~lop'.result)]_vars
    /\ [][(L_start /\ lop.op = "close" /\ process # NoProc /\ lop'.error # "StartError")
            => (is_alive(process') /\ SameLaunch(process', process))]_vars
    /\ [][(L_restart /\ lop.op = "close" /\ process # NoProc /\ lop'.error # "StartError")
            => (/\ lop'.error = "none" /\ is_alive(process')
                /\ SameLaunch(process', process))]_vars

\* C15: restart() in any state, unless the operating system refuses the
\* launch, returns with a new process alive that was created from the stored
\* configuration, the previous process not running.
C15_RestartInAnyState ==
    [][(L_restart /\ lop'.error # "StartError")
        => (/\ lop'.error = "none"
            /\ is_alive(process')
            /\ old'.status # "running"
            /\ IF process = NoProc THEN RunsStashed(process', stash)
                                   ELSE SameLaunch(process', process))]_vars

\* C16: create_process on a handle that holds a process puts a new, not
\* started process in its place and leaves the old one as it was; target,
\* daemon, args and kwargs each come from the call when given and from the
\* old process when omitted.
C16_CreateProcessInherits ==
    [][\A g \in Given : (L_create_process(g) /\ process # NoProc)
        => (/\ process'.status = "initial"
            /\ old' = process
            /\ process'.target = IF g.target = "None" THEN process.target ELSE g.target
            /\ process'.daemon = IF g.daemon = "None" THEN process.daemon ELSE g.daemon
            /\ process'.args = IF g.args = EmptyArgs THEN process.args ELSE g.args
            /\ process'.kwargs = IF g.kwargs = EmptyKwargs THEN process.kwargs
                                                            ELSE g.kwargs)]_vars

\* C16 happens: a running process with arguments was replaced by a call
\* giving only a target; the new process has that target and the old
\* arguments, and the old process still runs.
C16_Witness ==
    /\ lop.op = "create_process" /\ old.status = "running"
    /\ lop.given.target = "run_method" /\ lop.given.args = EmptyArgs
    /\ lop.given.kwargs = EmptyKwargs /\ lop.given.daemon = "None"
    /\ old.target = "log" /\ old.args # EmptyArgs /\ old.kwargs # EmptyKwargs
    /\ process.status = "initial" /\ process.target = "run_method"
    /\ process.args = old.args /\ process.kwargs = old.kwargs

\* C17: on a handle built with delay=True, construct() or create_process()
\* with no arguments creates a process with the stashed entry function and
\* arguments, which start() then runs once and which is not alive after it
\* has returned.
C17_DelayedConstructThenStart ==
    /\ [][((L_construct \/ L_create_process(NoStash))
            /\ process = NoProc /\ stash.target # "None")
            => (process'.status = "initial" /\ RunsStashed(process', stash))]_vars
    /\ [][(L_start /\ process.status = "initial" /\ lop'.error = "none")
            => (is_alive(process') /\ SameLaunch(process', process))]_vars
    /\ [](process.status = "exited" => ~is_alive(process))

\* A step of the unit's join that leaves its polling loop.
LeavesPolling == ujn' # ujn /\ ujn.phase # "handle" /\ ujn'.why # "none"

C12_StopSignalsThenJoins ==
    /\ []((~isCluster /\ stp.kind # "none") => stp.taskStops = <<NoTaskStop>>)
    /\ []((~isCluster /\ stp.phase \in {"join", "joining"}) => stp.join)
    /\ []((~isCluster /\ stp.phase = "done") => ~stp.join)
    /\ [][(~isCluster /\ stp' # stp)
            => (process' = process /\ joined' = joined /\ pc' = pc)]_vars
    /\ [][(~isCluster /\ stp' # stp /\ stp'.phase # "joining")
            => (ujn' = ujn /\ jn' = jn /\ hpc' = hpc)]_vars
    /\ [][(~isCluster /\ stp' # stp /\ stp'.phase = "joining")
            => (/\ Len(stp.taskStops) = 1
                /\ ujn'.kind = (IF stp.kind = "stop" THEN "join" ELSE "join_async")
                /\ ujn'.start = now /\ ujn'.timeout = stp.timeout)]_vars

\* C12 happens: stop_async(join=True) was called on a separate-process unit
\* in the middle of a dispatch with its process alive, and is now waiting in
\* join_async.
C12_Witness ==
    /\ ~isCluster /\ stp.kind = "stop_async" /\ stp.phase = "joining"
    /\ ujn.kind = "join_async" /\ ujn.phase = "sleep"
    /\ pc = "closure" /\ ~joined /\ process.status = "running"

\* C13: stop / stop_async of a cluster calls the task's stop once with the
\* join and timeout it was given, before its own join; its own join follows
\* exactly when join is true, with that same timeout.
C13_ClusterStopPassesDown ==
    /\ []((isCluster /\ stp.kind # "none")
            => stp.taskStops = <<[given |-> TRUE, join |-> stp.join,
                                  timeout |-> stp.timeout]>>)
    /\ []((isCluster /\ stp.phase \in {"join", "joining"}) => stp.join)
    /\ []((isCluster /\ stp.phase = "done") => ~stp.join)
    /\ [][(isCluster /\ stp' # stp /\ stp'.phase # "joining")
            => (ujn' = ujn /\ jn' = jn /\ hpc' = hpc)]_vars
    /\ [][(isCluster /\ stp' # stp /\ stp'.phase = "joining")
            => (/\ Len(stp.taskStops) = 1
                /\ ujn'.kind = (IF stp.kind = "stop" THEN "join" ELSE "join_async")
                /\ ujn'.start = now /\ ujn'.timeout = stp.timeout
                /\ ujn'.timeout = stp.taskStops[1].timeout)]_vars

\* C13 happens: a cluster's stop(join=True, timeout) has passed both down and
\* its own join has then run out of that timeout.
C13_Witness ==
    /\ isCluster /\ stp.kind = "stop" /\ stp.phase = "joining" /\ stp.timeout = MaxTimeout
    /\ stp.taskStops[1].timeout = MaxTimeout /\ stp.taskStops[1].join
    /\ ujn.phase = "returned" /\ ujn.why = "timeout" /\ ujn.timeout = MaxTimeout

\* C21: is_alive() returns without raising; it returns false on a handle
\* that holds no process and on one whose process has exited, and otherwise
\* whether the process of the handle runs.
C21_IsAliveNeverRaises ==
    [][L_is_alive
        => (/\ lop'.error = "none"
            /\ process = NoProc => ~lop'.result
            /\ process.status = "exited" => ~lop'.result
            /\ lop'.result = (process.status = "running"))]_vars

\* The setup or the closure callable is a coroutine function, or the unit
\* runs in process and its task says it is asynchronous.
CooperativeConfigured ==
    \/ unit.execute_setup = "coro"
    \/ unit.execute_closure = "coro"
    \/ ~unit.separate_process /\ unit.task_is_async

\* C22: is_async() is true exactly when the setup or the closure callable is
\* cooperative or the unit is in-process with a task reporting is_async();
\* a separate-process unit with plain setup and closure is not async whatever
\* its task reports, and run / start choose their sequence accordingly.
C22_IsAsyncByCallablesAndMode ==
    /\ [](is_async <=> CooperativeConfigured)
    /\ []((/\ unit.separate_process /\ unit.execute_setup = "plain"
           /\ unit.execute_closure = "plain") => ~is_async)
    /\ [][(run \/ start) => ((path' = "coro") <=> CooperativeConfigured)]_vars

\* C22 happens: a separate-process unit with plain callables and a task that
\* reports is_async() was run and took the blocking sequence to its end.
C22_Witness ==
    /\ unit.separate_process /\ unit.task_is_async
    /\ unit.execute_setup = "plain" /\ unit.execute_closure = "plain"
    /\ ~is_async /\ pc = "done" /\ path = "normal" /\ method = "run"

\* C23: a dispatch of a separate-process unit with allow_closure false or
\* await_closure false that has launched its process, and in which no
\* callable raised, returns normally with joined true, whether or not the
\* process has exited.
C23_JoinedOnceLaunched ==
    (/\ unit.separate_process /\ (~unit.allow_closure \/ ~unit.await_closure)
     /\ Occurs("launch", events) /\ thrown = "none" /\ pc \in {"done", "failed"})
    => (pc = "done" /\ joined)

C24_StopNeverStartedIsNoOp ==
    (~isCluster /\ dispatches = 0 /\ stp.kind = "stop" /\ stp.join /\ stp.phase = "joining")
    => (/\ ujn.phase = "returned" /\ ujn.handle # "raised"
        /\ joined /\ process.status \in {"none", "initial"})

\* C25: after a phase of a dispatch has raised, joined is false and stays so
\* until another dispatch; a join of the unit polling in that state leaves
\* its loop by the timeout alone, never when there is no timeout, and without
\* joining the process handle.
C25_JoinAfterFailureOnlyTimesOut ==
    /\ [](pc = "failed" => ~joined)
    /\ [][(pc = "failed" /\ pc' = "failed") => joined' = joined]_vars
    /\ [][(pc = "failed" /\ LeavesPolling)
            => (/\ ujn'.why = "timeout" /\ ujn'.timeout # NoTimeout
                /\ now - ujn'.start >= ujn'.timeout
                /\ ujn'.handle = "none")]_vars
    /\ [][(/\ pc = "failed" /\ pc' = "failed" /\ ujn.timeout = NoTimeout
           /\ ujn.phase \in {"poll", "sleep"})
            => ujn'.phase = ujn.phase]_vars

\* C25 happens: the task of a dispatch raised, and a join_async with no
\* timeout is still polling when the clock has run out.
C25_Witness ==
    /\ pc = "failed" /\ raised = "TaskError" /\ ~joined
    /\ ujn.kind = "join_async" /\ ujn.timeout = NoTimeout /\ ujn.phase = "sleep"
    /\ now = MaxTime /\ ujn.start < now

\* C26: a dispatch of a separate-process unit that reaches its task phase
\* while the process of the previous dispatch is alive fails there with the
\* error of the task_object property: joined is false, the setup has run if
\* allowed, no process is launched and the running one is left alone; stop
\* in that state calls the task's stop all the same.
C26_TaskObjectFailsWhileProcessing ==
    /\ [][(TaskRemote /\ is_processing)
            => (/\ pc' = "failed" /\ raised' = "TypeError"
                /\ process' = process /\ events' = events
                /\ ~joined /\ joined' = joined
                /\ events = IF unit.allow_setup THEN <<"setup">> ELSE <<>>)]_vars
    /\ [](raised = "TypeError" => ~Occurs("launch", events))
    /\ [][(is_processing /\ stp' # stp /\ stp.phase # "join")
            => (Len(stp'.taskStops) = 1 /\ process' = process)]_vars

\* C26 happens: the second dispatch of a unit with setup failed with the
\* TypeError after its setup, the process of the first still runs, and a
\* stop has called the task's stop.
C26_Witness ==
    /\ pc = "failed" /\ raised = "TypeError" /\ dispatches = 2
    /\ unit.allow_setup /\ events = <<"setup">> /\ ~joined
    /\ is_processing /\ Len(stp.taskStops) = 1 /\ ~isCluster

\* C28: a cluster constructed with a task holds that task afterwards, and
\* its process handle has the daemon flag and keyword arguments asked for,
\* as for a unit constructed with the same arguments; a default task is
\* built only when no task was given.
C28_ClusterKeepsItsArguments ==
    built.cls = "cluster" =>
        LET a == built.given
            u == ProcessingUnit_init(a)
        IN  /\ a.task # "None" => (built.error = "none" /\ built.task_object = a.task)
            /\ (built.error = "none" /\ built.task_object = a.DEFAULT_TASK)
                  => a.task = "None"
            /\ a.separate_process => (/\ built.process.daemon = a.daemon
                                      /\ built.process.kwargs = a.p_kwargs)
            /\ built.error = u.error /\ built.task_object = u.task_object
            /\ built.process = u.process

====
